---- MODULE Spec2Model ----
(***************************************************************************)
(* A model of the pagez language engine (src/index.ts, first variant):     *)
(* the parser Pages.add over the token array that tokenize returns, the    *)
(* registries filled by Pages.use, and the resolver loop of Pages.build.   *)
(*                                                                         *)
(* Strings are sequences of one-character strings, so that the shape tests *)
(* of Token (startsWith, endsWith, the identifier regex) and slice(1,-1)   *)
(* are computed and not assumed.  A Loc is the reference to the Loc object *)
(* of one token: the source it belongs to and the token's index.           *)
(***************************************************************************)
EXTENDS Integers, Sequences, FiniteSets, TLC

\* ------------------------------------------------------------------------
\* Bounds
\* ------------------------------------------------------------------------
\* tokens (end marker included) over all the sources given to add
MaxTokens == 11
\* calls of add
MaxSources == 1
\* calls of build
MaxBuilds == 2
\* calls of use
MaxUses == 1

\* ------------------------------------------------------------------------
\* Token values
\* ------------------------------------------------------------------------
LBRACE == <<"{">>
RBRACE == <<"}">>
PERCENT == <<"%">>
DASH == <<"-">>
BANG == <<"!">>
LT == <<"<">>
GT == <<">">>
EQUALS == <<"=">>
AT == <<"@">>
BLANK == <<" ">>

N_auto == <<"a", "u", "t", "o">>
N_min == <<"m", "i", "n">>
N_kind == <<"k", "i", "n", "d">>
N_constructor == <<"c", "o", "n", "s", "t", "r", "u", "c", "t", "o", "r">>

K_not == <<"_", "_", "n", "o", "t">>
K_mac == <<"_", "_", "m", "a", "c">>
K_glb == <<"_", "_", "g", "l", "b">>

\* the value `true` of a flag, distinct from every string
JsTrue == <<"true">>

Letters ==
    {"a", "b", "c", "d", "e", "f", "g", "h", "i", "j", "k", "l", "m",
     "n", "o", "p", "q", "r", "s", "t", "u", "v", "w", "x", "y", "z",
     "A", "B", "C", "D", "E", "F", "G", "H", "I", "J", "K", "L", "M",
     "N", "O", "P", "Q", "R", "S", "T", "U", "V", "W", "X", "Y", "Z"}

Digits == {"0", "1", "2", "3", "4", "5", "6", "7", "8", "9"}

\* the class [a-z0-9_\-] of the identifier regex, case-insensitive
IdChars == Letters \cup Digits \cup {"_", "-"}

Slice1(val) == SubSeq(val, 2, Len(val) - 1)

Token(val) == [val |-> val, eof |-> FALSE]

EOF == [val |-> BLANK, eof |-> TRUE]

isNamespace(tk) == tk.val[1] = "(" /\ tk.val[Len(tk.val)] = ")"

isPage(tk) == tk.val[1] = "[" /\ tk.val[Len(tk.val)] = "]"

isIdentifier(tk) ==
    LET body == IF tk.val[1] = "#" THEN Tail(tk.val) ELSE tk.val
    IN  /\ Len(body) >= 1
        /\ \A k \in 1..Len(body) : body[k] \in IdChars

isString(tk) == tk.val[1] = "\"" /\ tk.val[Len(tk.val)] = "\""

\* the token values the sources of this model are written with
TokenVals ==
    { <<"(", "a", ")">>, <<"[", "p", "]">>, <<"\"", "s", "\"">>,
      LBRACE, RBRACE, PERCENT, DASH, BANG, LT, GT, EQUALS, AT,
      N_auto, N_min, K_mac }

Tokens == {Token(v) : v \in TokenVals} \cup {EOF}

\* ------------------------------------------------------------------------
\* State
\* ------------------------------------------------------------------------
VARIABLES
    namespaces,   \* Pages.namespaces
    decorators,   \* Pages.decorators: the own properties of the registry
    macros,       \* Pages.macros: the own properties of the registry
    sources,      \* the token array of every Source given to add so far
    pc,           \* "idle", "add" or "build": the call in progress
    err,          \* outcome of the last call: NoError or the error thrown
    i,            \* add: the loop index
    state,        \* add: ParseState
    namespace,    \* add: index of the current namespace, 0 for null
    page,         \* add: index of the current page in it, 0 for null
    decs,         \* add: pending local decorators
    groupDecs,    \* add: pending group decorators
    globDecs,     \* add: pending global decorators
    sub,          \* add: "top" of the for loop, or "params" inside <...>
    paramOf,      \* add: the buffer whose last decorator receives params
    before,       \* namespaces when the call in progress started
    bpos,         \* build: number of pages the resolver loop has passed
    nbuilds,      \* number of build calls started
    nuses,        \* number of use calls
    phase,        \* build: "expand", "cancel" or "invoke" for the page at bpos
    cancelIn,     \* build: the list the last cancellation pass started from
    calls,        \* log of the implementations invoked, in order
    groupLog,     \* log of the groups opened: the `{` and the decorators it took
    op,           \* the last method called: in progress, or returned when idle
    got,          \* what the last getPage call returned or threw
    born,         \* for every source, the number of build calls made before its add
    done,         \* the build calls that returned, by their number
    body,         \* the text of a Source
    toks,         \* tokenize(source) for that text, <<>> before the call
    diag          \* the last outcome for that text: of add's first turn, or an error built

parseVars == <<i, state, namespace, page, decs, groupDecs, globDecs, sub, paramOf>>

vars == <<namespaces, decorators, macros, sources, pc, err, i, state, namespace,
          page, decs, groupDecs, globDecs, sub, paramOf, before, bpos, nbuilds,
          nuses, phase, cancelIn, calls, groupLog, op, got, born, done, body, toks, diag>>

lexVars == <<body, toks, diag>>

Top == "Top"
Namespace == "Namespace"
Page == "Page"

NoError == [kind |-> "none", loc |-> [src |-> 0, tok |-> 0], msg |-> "ok"]

NoLoc == [src |-> 0, tok |-> 0]

\* the token array of the source being parsed
tokens == sources[Len(sources)]

Has(k) == k < Len(tokens)

Tk(k) == tokens[k + 1]

V(k) == tokens[k + 1].val

\* tokens[k].loc
LocOf(k) == [src |-> Len(sources), tok |-> k]

TotalTokens == LET RECURSIVE Sum(_)
                   Sum(n) == IF n = 0 THEN 0 ELSE Len(sources[n]) + Sum(n - 1)
               IN  Sum(Len(sources))

Complete == tokens /= <<>> /\ tokens[Len(tokens)].eof

\* parseError and buildError for a Loc given as a token's index: the text
\* around the token is not in the token array, so the caret offset and the
\* RangeError of a negative one are in ErrorAt, over source texts
parseError(loc, message) == [kind |-> "SyntaxError", loc |-> loc, msg |-> message]

buildError(loc, message) == [kind |-> "EvalError", loc |-> loc, msg |-> message]

\* no error built yet
NoDiag == [kind |-> "none", by |-> "none"]

\* no getPage call yet
NoResult == [kind |-> "none", path |-> <<>>, page |-> <<0, 0>>]

Init ==
    /\ namespaces = <<>>
    /\ decorators = <<>>
    /\ macros = <<>>
    /\ sources = <<>>
    /\ pc = "idle"
    /\ err = NoError
    /\ i = 0
    /\ state = Top
    /\ namespace = 0
    /\ page = 0
    /\ decs = <<>>
    /\ groupDecs = <<>>
    /\ globDecs = <<>>
    /\ sub = "top"
    /\ paramOf = "none"
    /\ before = <<>>
    /\ bpos = 0
    /\ nbuilds = 0
    /\ nuses = 0
    /\ phase = "expand"
    /\ cancelIn = <<>>
    /\ calls = <<>>
    /\ groupLog = {}
    /\ op = "new"
    /\ got = NoResult
    /\ born = <<>>
    /\ done = {}
    /\ body = <<>>
    /\ toks = <<>>
    /\ diag = NoDiag

\* ------------------------------------------------------------------------
\* Pages.add: the parser
\* ------------------------------------------------------------------------
EmptyMap == <<>>

\* the value of an absent optional field
Undefined == <<"undefined">>

Truthy(v) == v /= <<>> /\ v /= Undefined

Get(map, key) == IF key \in DOMAIN map THEN map[key] ELSE Undefined

Put(map, key, value) == (key :> value) @@ map

\* resolveValue: the string's content, or the syntax error it throws
resolveValue(k) ==
    IF Tk(k).eof
    THEN [ok |-> FALSE, value |-> <<>>, err |-> parseError(LocOf(k), "Expected an expression")]
    ELSE IF isString(Tk(k))
    THEN [ok |-> TRUE, value |-> Slice1(V(k)), err |-> NoError]
    ELSE IF isIdentifier(Tk(k))
    THEN [ok |-> FALSE, value |-> <<>>, err |-> parseError(LocOf(k), "Variables are not supported yet")]
    ELSE [ok |-> FALSE, value |-> <<>>, err |-> parseError(LocOf(k), "Invalid value")]

\* index of the decorator name after `%`, given the modifiers revealed so far
DecPos1 == i + 1
DecPos2 == IF V(DecPos1) = PERCENT THEN DecPos1 + 1 ELSE DecPos1
DecPos3 == IF V(DecPos2) = DASH THEN DecPos2 + 1 ELSE DecPos2
DecPos4 == IF V(DecPos3) = BANG THEN DecPos3 + 1 ELSE DecPos3

NeedDec ==
    IF ~Has(DecPos1) THEN DecPos1
    ELSE IF ~Has(DecPos2) THEN DecPos2
    ELSE IF ~Has(DecPos3) THEN DecPos3
    ELSE IF ~Has(DecPos4) THEN DecPos4
    ELSE IF isIdentifier(Tk(DecPos4)) THEN DecPos4 + 1 ELSE DecPos4

\* mutant: tokens[i+2] is read before tokens[i+1] is compared with `=`
NeedAssign_eager == i + 2

NeedAssign == IF Has(i + 1) /\ V(i + 1) = EQUALS THEN i + 2 ELSE i + 1

NeedParams ==
    IF ~Has(i + 1) THEN i + 1
    ELSE IF V(i + 1) = GT THEN i + 1
    ELSE IF isIdentifier(Tk(i + 1))
    THEN (IF Has(i + 2) /\ V(i + 2) = EQUALS THEN i + 3 ELSE i + 2)
    ELSE i + 1

\* the furthest index of tokens that the next step of the parser reads
Need ==
    IF sub = "params" THEN NeedParams
    ELSE IF ~Has(i) THEN i
    ELSE IF state = Top
    THEN (IF isNamespace(Tk(i)) /\ Slice1(V(i)) /= <<>> THEN i + 1 ELSE i)
    ELSE IF state = Namespace
    THEN (IF V(i) = RBRACE THEN i
          ELSE IF isIdentifier(Tk(i)) THEN NeedAssign
          ELSE IF isPage(Tk(i)) THEN i + 1
          ELSE IF V(i) = PERCENT THEN NeedDec
          ELSE i)
    ELSE (IF V(i) = RBRACE THEN i
          ELSE IF isIdentifier(Tk(i)) THEN NeedAssign
          ELSE IF V(i) = AT THEN i + 1
          ELSE i)

addLocals == <<decorators, macros, sources, before, bpos, nbuilds, nuses, phase, cancelIn, calls,
               op, got, born, done, lexVars>>

addFrame == <<addLocals, groupLog>>

\* add(source) is called: tokenize(source), then the locals of the parser
Add ==
    /\ pc = "idle"
    /\ Len(sources) < MaxSources
    /\ TotalTokens < MaxTokens
    /\ sources' = Append(sources, <<>>)
    /\ pc' = "add"
    /\ err' = NoError
    /\ before' = namespaces
    /\ i' = 0
    /\ state' = Top
    /\ namespace' = 0
    /\ page' = 0
    /\ decs' = <<>>
    /\ groupDecs' = <<>>
    /\ globDecs' = <<>>
    /\ sub' = "top"
    /\ paramOf' = "none"
    /\ op' = "add"
    /\ got' = NoResult
    /\ born' = Append(born, nbuilds)
    /\ UNCHANGED <<namespaces, decorators, macros, bpos, nbuilds, nuses, phase,
                   cancelIn, calls, groupLog, done, lexVars>>

\* the next token of the array tokenize returned, revealed when the parser
\* is about to read it; the end marker is the last token of every array
Lex ==
    /\ pc = "add"
    /\ ~Complete
    /\ Need >= Len(tokens)
    /\ \E tk \in Tokens :
          /\ TotalTokens >= MaxTokens - 1 => tk.eof
          /\ sources' = [sources EXCEPT ![Len(sources)] = Append(@, tk)]
    /\ UNCHANGED <<namespaces, decorators, macros, pc, err, parseVars, before,
                   bpos, nbuilds, nuses, phase, cancelIn, calls, groupLog, op, got,
                   born, done, lexVars>>

Stepping == pc = "add" /\ Need < Len(tokens)

\* a throw out of add: the locals die, this.namespaces keeps what was pushed
Fail(e) ==
    /\ err' = e
    /\ pc' = "idle"
    /\ UNCHANGED <<namespaces, parseVars>>
    /\ UNCHANGED addFrame

\* state Top, a namespace header
TopNamespace ==
    /\ Stepping /\ sub = "top" /\ state = Top
    /\ isNamespace(Tk(i))
    /\ IF Slice1(V(i)) = <<>>
       THEN Fail(parseError(LocOf(i), "Missing namespace name"))
       ELSE IF V(i + 1) /= LBRACE
       THEN Fail(parseError(LocOf(i + 1), "Expected {"))
       ELSE /\ i' = i + 2
            /\ state' = Namespace
            /\ namespaces' = Append(namespaces,
                  [name |-> Slice1(V(i)), loc |-> LocOf(i), pages |-> <<>>,
                   props |-> EmptyMap])
            /\ namespace' = Len(namespaces) + 1
            /\ UNCHANGED <<pc, err, page, decs, groupDecs, globDecs, sub, paramOf>>
            /\ UNCHANGED addFrame

\* state Top, the end marker (break), or the for loop running out of tokens
AddReturn ==
    /\ pc = "add" /\ sub = "top"
    /\ IF Has(i) THEN state = Top /\ ~isNamespace(Tk(i)) /\ Tk(i).eof ELSE Complete
    /\ pc' = "idle"
    /\ err' = NoError
    /\ UNCHANGED <<namespaces, parseVars>>
    /\ UNCHANGED addFrame

\* state Top, any other token
TopError ==
    /\ Stepping /\ sub = "top" /\ state = Top
    /\ ~isNamespace(Tk(i)) /\ ~Tk(i).eof
    /\ Fail(parseError(LocOf(i), "Expected a namespace declaration"))

InvalidState == parseError(LocOf(i), "<INVALID STATE>")

\* mutant: the `}` that closes a group also drops the current namespace
NsClose_dropsNamespace ==
    /\ Stepping /\ sub = "top" /\ state = Namespace
    /\ V(i) = RBRACE
    /\ IF namespace = 0
       THEN Fail(InvalidState)
       ELSE /\ IF groupDecs /= <<>>
               THEN groupDecs' = <<>> /\ namespace' = 0 /\ UNCHANGED state
               ELSE state' = Top /\ namespace' = 0 /\ UNCHANGED groupDecs
            /\ i' = i + 1
            /\ UNCHANGED <<namespaces, pc, err, page, decs, globDecs, sub, paramOf>>
            /\ UNCHANGED addFrame

\* state Namespace, }
NsClose ==
    /\ Stepping /\ sub = "top" /\ state = Namespace
    /\ V(i) = RBRACE
    /\ IF namespace = 0
       THEN Fail(InvalidState)
       ELSE /\ IF groupDecs /= <<>>
               THEN groupDecs' = <<>> /\ UNCHANGED <<state, namespace>>
               ELSE state' = Top /\ namespace' = 0 /\ UNCHANGED groupDecs
            /\ i' = i + 1
            /\ UNCHANGED <<namespaces, pc, err, page, decs, globDecs, sub, paramOf>>
            /\ UNCHANGED addFrame

\* state Namespace, identifier = value
NsProp ==
    /\ Stepping /\ sub = "top" /\ state = Namespace
    /\ V(i) /= RBRACE /\ isIdentifier(Tk(i))
    /\ IF namespace = 0
       THEN Fail(InvalidState)
       ELSE IF V(i + 1) /= EQUALS
       THEN Fail(parseError(LocOf(i + 1), "Expected ="))
       ELSE IF ~resolveValue(i + 2).ok
       THEN Fail(resolveValue(i + 2).err)
       ELSE /\ namespaces' = [namespaces EXCEPT ![namespace].props =
                                  Put(@, V(i), resolveValue(i + 2).value)]
            /\ i' = i + 3
            /\ UNCHANGED <<pc, err, state, namespace, page, decs, groupDecs,
                           globDecs, sub, paramOf>>
            /\ UNCHANGED addFrame

\* mutant: the page is created without the pending global decorators
NewPageDecorators_noGlob == groupDecs \o decs

\* mutant: the local decorators come first and the global ones last
NewPageDecorators_localFirst == decs \o groupDecs \o globDecs

\* the decorators of a new page: [...globDecs,...groupDecs,...decs]
NewPageDecorators == globDecs \o groupDecs \o decs

\* mutant: the pending local decorators are not cleared
DecsAfterPage_kept == decs

\* decs = [] once the page has taken the pending local decorators
DecsAfterPage == <<>>

\* state Namespace, a page header
NsPage ==
    /\ Stepping /\ sub = "top" /\ state = Namespace
    /\ V(i) /= RBRACE /\ ~isIdentifier(Tk(i)) /\ isPage(Tk(i))
    /\ IF namespace = 0
       THEN Fail(InvalidState)
       ELSE IF V(i + 1) /= LBRACE
       THEN Fail(parseError(LocOf(i + 1), "Expected {"))
       ELSE /\ namespaces' = [namespaces EXCEPT ![namespace].pages = Append(@,
                  [name |-> Slice1(V(i)), loc |-> LocOf(i), path |-> Undefined,
                   decorators |-> NewPageDecorators,
                   props |-> EmptyMap])]
            /\ page' = Len(namespaces[namespace].pages) + 1
            /\ state' = Page
            /\ decs' = DecsAfterPage
            /\ i' = i + 2
            /\ UNCHANGED <<pc, err, namespace, groupDecs, globDecs, sub, paramOf>>
            /\ UNCHANGED addFrame

\* the props of a decorator as declared: the flags set by the markers
DecFlags(not, mac, glb) ==
    (IF not THEN K_not :> JsTrue ELSE EmptyMap) @@
    (IF mac THEN K_mac :> JsTrue ELSE EmptyMap) @@
    (IF glb THEN K_glb :> JsTrue ELSE EmptyMap)

\* state Namespace, `%`: a decorator declaration up to its name
NsDecorator ==
    /\ Stepping /\ sub = "top" /\ state = Namespace
    /\ V(i) /= RBRACE /\ ~isIdentifier(Tk(i)) /\ ~isPage(Tk(i))
    /\ V(i) = PERCENT
    /\ IF namespace = 0
       THEN Fail(InvalidState)
       ELSE IF ~isIdentifier(Tk(DecPos4))
       THEN Fail(parseError(LocOf(DecPos4), "Expected an identifier"))
       ELSE LET glb == DecPos2 /= DecPos1
                not == DecPos3 /= DecPos2
                mac == DecPos4 /= DecPos3
                dec == [name |-> V(DecPos4), loc |-> LocOf(i), args |-> <<>>,
                        props |-> DecFlags(not, mac, glb)]
            IN  IF V(DecPos4 + 1) = LT /\ not
                THEN Fail(parseError(LocOf(DecPos4 + 1),
                                     "Can't add parameters to cancelled decorator"))
                ELSE /\ IF glb
                        THEN globDecs' = Append(globDecs, dec) /\ UNCHANGED decs
                        ELSE decs' = Append(decs, dec) /\ UNCHANGED globDecs
                     /\ IF V(DecPos4 + 1) = LT
                        THEN /\ i' = DecPos4 + 1
                             /\ sub' = "params"
                             /\ paramOf' = IF glb THEN "globDecs" ELSE "decs"
                        ELSE /\ i' = DecPos4 + 1
                             /\ UNCHANGED <<sub, paramOf>>
                     /\ UNCHANGED <<namespaces, pc, err, state, namespace, page, groupDecs>>
                     /\ UNCHANGED addFrame

SetLast(buf, d) == [buf EXCEPT ![Len(buf)] = d]

\* the decorator whose parameter list is being read: the last one pushed
CurDec == IF paramOf = "globDecs" THEN globDecs[Len(globDecs)] ELSE decs[Len(decs)]

SetCurDec(d) ==
    IF paramOf = "globDecs"
    THEN globDecs' = SetLast(globDecs, d) /\ UNCHANGED decs
    ELSE decs' = SetLast(decs, d) /\ UNCHANGED globDecs

\* one turn of the while loop over the parameter list <...>
NsParam ==
    /\ Stepping /\ sub = "params"
    /\ IF V(i + 1) = GT
       THEN /\ i' = i + 2
            /\ sub' = "top"
            /\ paramOf' = "none"
            /\ UNCHANGED <<namespaces, pc, err, state, namespace, page, decs,
                           groupDecs, globDecs>>
            /\ UNCHANGED addFrame
       ELSE IF isIdentifier(Tk(i + 1))
       THEN IF V(i + 2) /= EQUALS
            THEN Fail(parseError(LocOf(i + 2), "Expected ="))
            ELSE IF ~resolveValue(i + 3).ok
            THEN Fail(resolveValue(i + 3).err)
            ELSE /\ SetCurDec([CurDec EXCEPT !.props =
                                  Put(@, V(i + 1), resolveValue(i + 3).value)])
                 /\ i' = i + 3
                 /\ UNCHANGED <<namespaces, pc, err, state, namespace, page,
                                groupDecs, sub, paramOf>>
                 /\ UNCHANGED addFrame
       ELSE IF ~resolveValue(i + 1).ok
       THEN Fail(resolveValue(i + 1).err)
       ELSE /\ SetCurDec([CurDec EXCEPT !.args =
                             Append(@, resolveValue(i + 1).value)])
            /\ i' = i + 1
            /\ UNCHANGED <<namespaces, pc, err, state, namespace, page,
                           groupDecs, sub, paramOf>>
            /\ UNCHANGED addFrame

\* state Namespace, `{`: the pending local decorators become the group's
NsGroup ==
    /\ Stepping /\ sub = "top" /\ state = Namespace
    /\ V(i) = LBRACE
    /\ IF namespace = 0
       THEN Fail(InvalidState)
       ELSE IF decs = <<>>
       THEN Fail(parseError(LocOf(i), "Expected decorators before group"))
       ELSE /\ groupDecs' = decs
            /\ decs' = <<>>
            /\ i' = i + 1
            /\ groupLog' = groupLog \cup {[loc |-> LocOf(i), decs |-> decs]}
            /\ UNCHANGED <<namespaces, pc, err, state, namespace, page, globDecs,
                           sub, paramOf>>
            /\ UNCHANGED addLocals

\* state Namespace, a namespace header, the end marker or any other token
NsError ==
    /\ Stepping /\ sub = "top" /\ state = Namespace
    /\ V(i) /= RBRACE /\ ~isIdentifier(Tk(i)) /\ ~isPage(Tk(i))
    /\ V(i) /= PERCENT /\ V(i) /= LBRACE
    /\ IF namespace = 0
       THEN Fail(InvalidState)
       ELSE IF isNamespace(Tk(i))
       THEN Fail(parseError(LocOf(i), "Unexpected namespace declaration"))
       ELSE IF Tk(i).eof
       THEN Fail(parseError(LocOf(i), "Unexpected EOF"))
       ELSE Fail(parseError(LocOf(i), "Unexpected token"))

\* state Page, `}`
PgClose ==
    /\ Stepping /\ sub = "top" /\ state = Page
    /\ V(i) = RBRACE
    /\ IF page = 0
       THEN Fail(InvalidState)
       ELSE /\ state' = Namespace
            /\ page' = 0
            /\ i' = i + 1
            /\ UNCHANGED <<namespaces, pc, err, namespace, decs, groupDecs,
                           globDecs, sub, paramOf>>
            /\ UNCHANGED addFrame

\* state Page, identifier `=` value
PgProp ==
    /\ Stepping /\ sub = "top" /\ state = Page
    /\ V(i) /= RBRACE /\ isIdentifier(Tk(i))
    /\ IF page = 0
       THEN Fail(InvalidState)
       ELSE IF V(i + 1) /= EQUALS
       THEN Fail(parseError(LocOf(i + 1), "Expected ="))
       ELSE IF ~resolveValue(i + 2).ok
       THEN Fail(resolveValue(i + 2).err)
       ELSE /\ namespaces' = [namespaces EXCEPT ![namespace].pages[page].props =
                                  Put(@, V(i), resolveValue(i + 2).value)]
            /\ i' = i + 3
            /\ UNCHANGED <<pc, err, state, namespace, page, decs, groupDecs,
                           globDecs, sub, paramOf>>
            /\ UNCHANGED addFrame

\* state Page, `@` and the resource path
PgPath ==
    /\ Stepping /\ sub = "top" /\ state = Page
    /\ V(i) /= RBRACE /\ ~isIdentifier(Tk(i))
    /\ V(i) = AT
    /\ IF page = 0
       THEN Fail(InvalidState)
       ELSE IF ~isString(Tk(i + 1))
       THEN Fail(parseError(LocOf(i + 1), "Expected a string for page path"))
       ELSE /\ namespaces' = [namespaces EXCEPT ![namespace].pages[page].path =
                                  Slice1(V(i + 1))]
            /\ i' = i + 2
            /\ UNCHANGED <<pc, err, state, namespace, page, decs, groupDecs,
                           globDecs, sub, paramOf>>
            /\ UNCHANGED addFrame

\* state Page, a namespace or page header or any other token
PgError ==
    /\ Stepping /\ sub = "top" /\ state = Page
    /\ V(i) /= RBRACE /\ ~isIdentifier(Tk(i)) /\ V(i) /= AT
    /\ IF page = 0
       THEN Fail(InvalidState)
       ELSE IF isNamespace(Tk(i))
       THEN Fail(parseError(LocOf(i), "Unexpected namespace declaration"))
       ELSE IF isPage(Tk(i))
       THEN Fail(parseError(LocOf(i), "Unexpected page declaration"))
       ELSE Fail(parseError(LocOf(i), "Unexpected token"))

Parse ==
    \/ Add \/ Lex \/ AddReturn
    \/ TopNamespace \/ TopError
    \/ NsClose \/ NsProp \/ NsPage \/ NsDecorator \/ NsParam \/ NsGroup \/ NsError
    \/ PgClose \/ PgProp \/ PgPath \/ PgError

\* ------------------------------------------------------------------------
\* Pages.use and the implementations of builtinLib
\* ------------------------------------------------------------------------
K_headers == <<"_", "_", "h", "e", "a", "d", "e", "r", "s">>
K_process == <<"_", "_", "p", "r", "o", "c", "e", "s", "s">>
ContentType == <<"Content-Type">>

EXT_js == <<".", "j", "s">>
EXT_css == <<".", "c", "s", "s">>
EXT_html == <<".", "h", "t", "m", "l">>

endsWith(str, suffix) ==
    /\ Len(str) >= Len(suffix)
    /\ SubSeq(str, Len(str) - Len(suffix) + 1, Len(str)) = suffix

\* builtinLib: the registries map a name to the implementation's tag
builtinLib ==
    [decorators |-> (N_kind :> "kind") @@ (N_min :> "min"),
     macros |-> (N_auto :> "auto")]

\* a Lib of the embedding program, which has no decorators field: its macro
\* `min` returns one stub that is again a macro named `min`
userLib ==
    [decorators |-> <<>>,
     macros |-> (N_min :> "again")]

Libs == {builtinLib, userLib}

\* this.decorators[name] and this.macros[name]: an own property of the
\* registry, else what the registry object {} inherits from Object.prototype
\* (of the inherited names the model has `constructor`, the function Object)
Lookup(registry, name) ==
    IF name \in DOMAIN registry
    THEN [found |-> TRUE, impl |-> registry[name]]
    ELSE IF name = N_constructor
    THEN [found |-> TRUE, impl |-> "Object"]
    ELSE [found |-> FALSE, impl |-> "undefined"]

SetHeader(pg, value) ==
    [pg EXCEPT !.props = Put(@, K_headers,
        Put(IF K_headers \in DOMAIN pg.props THEN pg.props[K_headers] ELSE EmptyMap,
            ContentType, value))]

PushProcess(pg, fn) ==
    [pg EXCEPT !.props = Put(@, K_process,
        Append(IF K_process \in DOMAIN pg.props THEN pg.props[K_process] ELSE <<>>,
               fn))]

\* builtinLib.decorators.kind
kind(pg, dec) ==
    LET arg == IF Truthy(Get(dec.props, N_kind)) THEN dec.props[N_kind]
               ELSE IF Len(dec.args) >= 1 THEN dec.args[1] ELSE Undefined
    IN  IF Truthy(arg) THEN SetHeader(pg, arg)
        ELSE IF endsWith(pg.name, EXT_js) THEN SetHeader(pg, <<"application/javascript">>)
        ELSE IF endsWith(pg.name, EXT_css) THEN SetHeader(pg, <<"text/css">>)
        ELSE IF endsWith(pg.name, EXT_html) THEN SetHeader(pg, <<"text/html">>)
        ELSE pg

\* builtinLib.decorators.min
min(pg, dec) ==
    IF ~Truthy(pg.path) THEN pg
    ELSE LET p1 == IF endsWith(pg.path, EXT_js) THEN PushProcess(pg, "minifyjs") ELSE pg
         IN  IF endsWith(pg.path, EXT_html) THEN PushProcess(p1, "minifyhtml") ELSE p1

\* impl(page,dec) of a decorator; Object(page,dec) changes nothing
ApplyDec(impl, pg, dec) ==
    IF impl = "kind" THEN kind(pg, dec)
    ELSE IF impl = "min" THEN min(pg, dec)
    ELSE pg

\* builtinLib.macros.auto
auto(pg, dec) ==
    << [name |-> N_kind, args |-> <<>>, props |-> EmptyMap, loc |-> dec.loc],
       [name |-> N_min, args |-> <<>>, props |-> EmptyMap, loc |-> dec.loc] >>

\* userLib.macros.min
again(pg, dec) ==
    << [name |-> N_min, args |-> <<>>, props |-> Put(EmptyMap, K_mac, JsTrue),
        loc |-> dec.loc] >>

\* impl(page,macro) of a macro
ApplyMac(impl, pg, dec) ==
    IF impl = "auto" THEN auto(pg, dec) ELSE again(pg, dec)

useFrame == <<namespaces, sources, pc, err, before, bpos, nbuilds, phase, cancelIn, calls,
              groupLog, born, done>>

\* use(lib): Object.assign into both registries
Use ==
    /\ pc = "idle"
    /\ nuses < MaxUses
    /\ \E lib \in Libs :
          /\ decorators' = lib.decorators @@ decorators
          /\ macros' = lib.macros @@ macros
    /\ nuses' = nuses + 1
    /\ op' = "use"
    /\ got' = NoResult
    /\ UNCHANGED useFrame
    /\ UNCHANGED <<parseVars, lexVars>>

\* ------------------------------------------------------------------------
\* Pages.build: the resolver loop
\* ------------------------------------------------------------------------
\* mutant: the loops run from the last namespace and page to the first
RECURSIVE PagesFrom_reversed(_, _)
PagesFrom_reversed(nss, n) ==
    IF n > Len(nss) THEN <<>>
    ELSE PagesFrom_reversed(nss, n + 1)
         \o [p \in 1..Len(nss[n].pages) |-> <<n, Len(nss[n].pages) + 1 - p>>]

\* the pages in the order of the two nested for loops: <<namespace, page>>
RECURSIVE PagesFrom(_, _)
PagesFrom(nss, n) ==
    IF n > Len(nss) THEN <<>>
    ELSE [p \in 1..Len(nss[n].pages) |-> <<n, p>>] \o PagesFrom(nss, n + 1)

PageOrder == PagesFrom(namespaces, 1)

CurPage == namespaces[PageOrder[bpos + 1][1]].pages[PageOrder[bpos + 1][2]]

SetCurPage(pg) ==
    [namespaces EXCEPT ![PageOrder[bpos + 1][1]].pages[PageOrder[bpos + 1][2]] = pg]

isMac(dec) == Truthy(Get(dec.props, K_mac))

isNot(dec) == Truthy(Get(dec.props, K_not))

\* Array.prototype.indexOf, 1-based, 0 when absent
indexOf(list, x) ==
    IF \E k \in 1..Len(list) : list[k] = x
    THEN CHOOSE k \in 1..Len(list) : list[k] = x /\ \A m \in 1..(k - 1) : list[m] /= x
    ELSE 0

\* mutant: the entry is removed and the items are pushed at the end
splice1_push(list, at, items) ==
    LET pos == IF at = 0 THEN Len(list) ELSE at
    IN  SubSeq(list, 1, pos - 1) \o SubSeq(list, pos + 1, Len(list)) \o items

\* list.splice(at, 1, ...items), at 1-based; indexOf's -1 counts from the end
splice1(list, at, items) ==
    LET pos == IF at = 0 THEN Len(list) ELSE at
    IN  SubSeq(list, 1, pos - 1) \o items \o SubSeq(list, pos + 1, Len(list))

Call(pg, dec, impl, what) ==
    [page |-> pg.loc, dec |-> dec.loc, name |-> dec.name, impl |-> impl, what |-> what,
     build |-> nbuilds]

\* the loop over page.decorators.filter(dec=>dec.props.__mac), from the k-th
\* macro on: the list and the log when it ends or throws
RECURSIVE ExpandFrom(_, _, _, _, _)
ExpandFrom(pg, macs, k, list, log) ==
    IF k > Len(macs) THEN [list |-> list, log |-> log, err |-> NoError]
    ELSE LET macro == macs[k]
             impl == Lookup(macros, macro.name)
         IN  IF ~impl.found
             THEN [list |-> list, log |-> log,
                   err |-> buildError(macro.loc, "Unknown macro")]
             ELSE IF impl.impl \notin {"auto", "again"}
             THEN [list |-> list, log |-> Append(log, Call(pg, macro, impl.impl, "macro")),
                   err |-> [kind |-> "TypeError", loc |-> NoLoc,
                            msg |-> "decs is not iterable"]]
             ELSE LET ret == ApplyMac(impl.impl, pg, macro)
                      stubs == IF isNot(macro)
                               THEN [n \in 1..Len(ret) |->
                                       [ret[n] EXCEPT !.props = Put(@, K_not, JsTrue)]]
                               ELSE ret
                  IN  ExpandFrom(pg, macs, k + 1,
                                 splice1(list, indexOf(list, macro), stubs),
                                 Append(log, Call(pg, macro, impl.impl, "macro")))

\* mutant: the stubs that are macros are expanded in their turn
Expand_again(pg) ==
    LET r == ExpandFrom(pg, SelectSeq(pg.decorators, isMac), 1, pg.decorators, <<>>)
    IN  IF r.err /= NoError THEN r
        ELSE ExpandFrom(pg, SelectSeq(r.list, isMac), 1, r.list, r.log)

Expand(pg) == ExpandFrom(pg, SelectSeq(pg.decorators, isMac), 1, pg.decorators, <<>>)

RemoveAt(list, j) == SubSeq(list, 1, j - 1) \o SubSeq(list, j + 1, Len(list))

\* mutant: the inner loop starts at i, so only the negated entry is removed
CancelInner_self(list, name, j, ii) == RemoveAt(list, ii)

\* the inner loop of the cancellation pass: j from the end down to i
RECURSIVE CancelInner(_, _, _, _)
CancelInner(list, name, j, ii) ==
    IF j < ii THEN list
    ELSE CancelInner(IF list[j].name = name THEN RemoveAt(list, j) ELSE list,
                     name, j - 1, ii)

\* the outer loop of the cancellation pass: i from the end down to the start
RECURSIVE CancelOuter(_, _)
CancelOuter(list, ii) ==
    IF ii < 1 THEN list
    ELSE IF ~isNot(list[ii]) THEN CancelOuter(list, ii - 1)
    ELSE CancelOuter(CancelInner(list, list[ii].name, Len(list), ii), ii - 1)

\* mutant: the outer loop starts one entry before the last
Cancel_fromSecondLast(list) == CancelOuter(list, Len(list) - 1)

Cancel(list) == CancelOuter(list, Len(list))

\* mutant: the loop runs from the last entry of the list to the first
RECURSIVE InvokeFrom_backwards(_, _, _)
InvokeFrom_backwards(pg, k, log) ==
    IF k > Len(pg.decorators) THEN [page |-> pg, log |-> log, err |-> NoError]
    ELSE LET dec == pg.decorators[Len(pg.decorators) + 1 - k]
             impl == Lookup(decorators, dec.name)
         IN  IF ~impl.found
             THEN [page |-> pg, log |-> log,
                   err |-> buildError(dec.loc, "Unknown decorator")]
             ELSE InvokeFrom_backwards(ApplyDec(impl.impl, pg, dec), k + 1,
                             Append(log, Call(pg, dec, impl.impl, "decorator")))

\* the loop that invokes the remaining decorators, from the k-th on
RECURSIVE InvokeFrom(_, _, _)
InvokeFrom(pg, k, log) ==
    IF k > Len(pg.decorators) THEN [page |-> pg, log |-> log, err |-> NoError]
    ELSE LET dec == pg.decorators[k]
             impl == Lookup(decorators, dec.name)
         IN  IF ~impl.found
             THEN [page |-> pg, log |-> log,
                   err |-> buildError(dec.loc, "Unknown decorator")]
             ELSE InvokeFrom(ApplyDec(impl.impl, pg, dec), k + 1,
                             Append(log, Call(pg, dec, impl.impl, "decorator")))

\* mutant: the list keeps its first entry
ClearDecorators_butFirst(pg) ==
    [pg EXCEPT !.decorators = IF @ = <<>> THEN <<>> ELSE <<Head(@)>>]

\* mutant: the list is left as the invocation loop found it
ClearDecorators_kept(pg) == pg

\* page.decorators = []
ClearDecorators(pg) == [pg EXCEPT !.decorators = <<>>]

buildFrame == <<decorators, macros, sources, nuses, groupLog, got, born>>

\* build(params) is called
Build ==
    /\ pc = "idle"
    /\ nbuilds < MaxBuilds
    /\ nbuilds' = nbuilds + 1
    /\ pc' = "build"
    /\ err' = NoError
    /\ before' = namespaces
    /\ bpos' = 0
    /\ phase' = "expand"
    /\ op' = "build"
    /\ got' = NoResult
    /\ UNCHANGED <<namespaces, cancelIn, calls, done>>
    /\ UNCHANGED <<decorators, macros, sources, nuses, groupLog, born>>
    /\ UNCHANGED <<parseVars, lexVars>>

\* the macros of the current page are expanded, or the build throws
BuildExpand ==
    /\ pc = "build" /\ phase = "expand"
    /\ bpos < Len(PageOrder)
    /\ LET r == Expand(CurPage)
       IN  /\ namespaces' = SetCurPage([CurPage EXCEPT !.decorators = r.list])
           /\ calls' = calls \o r.log
           /\ err' = r.err
           /\ IF r.err = NoError
              THEN phase' = "cancel" /\ UNCHANGED pc
              ELSE pc' = "idle" /\ UNCHANGED phase
    /\ UNCHANGED <<before, bpos, nbuilds, cancelIn, op, done>>
    /\ UNCHANGED buildFrame
    /\ UNCHANGED <<parseVars, lexVars>>

\* the cancellation pass over the current page
BuildCancel ==
    /\ pc = "build" /\ phase = "cancel"
    /\ cancelIn' = CurPage.decorators
    /\ namespaces' = SetCurPage([CurPage EXCEPT !.decorators = Cancel(@)])
    /\ phase' = "invoke"
    /\ UNCHANGED <<pc, err, before, bpos, nbuilds, calls, op, done>>
    /\ UNCHANGED buildFrame
    /\ UNCHANGED <<parseVars, lexVars>>

\* the remaining decorators are invoked and the list is cleared, or the
\* build throws at the first unknown decorator
BuildInvoke ==
    /\ pc = "build" /\ phase = "invoke"
    /\ LET r == InvokeFrom(CurPage, 1, <<>>)
       IN  /\ calls' = calls \o r.log
           /\ err' = r.err
           /\ IF r.err = NoError
              THEN /\ namespaces' = SetCurPage(ClearDecorators(r.page))
                   /\ bpos' = bpos + 1
                   /\ phase' = "expand"
                   /\ UNCHANGED pc
              ELSE /\ namespaces' = SetCurPage(r.page)
                   /\ pc' = "idle"
                   /\ UNCHANGED <<bpos, phase>>
    /\ UNCHANGED <<before, nbuilds, cancelIn, op, done>>
    /\ UNCHANGED buildFrame
    /\ UNCHANGED <<parseVars, lexVars>>

\* every page is resolved; params.outputPath is not given: build returns
BuildReturn ==
    /\ pc = "build" /\ phase = "expand"
    /\ bpos = Len(PageOrder)
    /\ pc' = "idle"
    /\ done' = done \cup {nbuilds}
    /\ UNCHANGED <<namespaces, err, before, bpos, nbuilds, phase, cancelIn, calls, op>>
    /\ UNCHANGED buildFrame
    /\ UNCHANGED <<parseVars, lexVars>>

\* ------------------------------------------------------------------------
\* Pages.getPage
\* ------------------------------------------------------------------------
SLASH == "/"

\* path.replace(/(^\/)|(\/$)/g,''): one leading and one trailing slash go
Strip(path) ==
    LET a == IF path /= <<>> /\ Head(path) = SLASH THEN Tail(path) ELSE path
    IN  IF a /= <<>> /\ a[Len(a)] = SLASH THEN SubSeq(a, 1, Len(a) - 1) ELSE a

\* the pages the condition of the if holds for, in the order of the loops
Matches(path) ==
    SelectSeq(PageOrder, LAMBDA ix :
        /\ namespaces[ix[1]].pages[ix[2]].name = path
        /\ Truthy(namespaces[ix[1]].pages[ix[2]].path))

\* mutant: the loops go on after a match and the last one is returned
FirstMatch_last(ms) == ms[Len(ms)]

\* the return inside the loops leaves them at the first match
FirstMatch(ms) == ms[1]

\* getPage(path): null, the page whose file was read, or the page whose file
\* fs.readFileSync could not read
getPage(path, readable) ==
    LET ms == Matches(Strip(path))
    IN  IF ms = <<>> THEN [kind |-> "null", path |-> path, page |-> <<0, 0>>]
        ELSE [kind |-> IF readable THEN "page" ELSE "throw", path |-> path,
              page |-> FirstMatch(ms)]

\* the paths asked for
GetPaths == {<<"p">>, <<"/", "p", "/">>, <<"/">>, <<"q">>}

GetPage ==
    /\ pc = "idle"
    /\ \E path \in GetPaths, readable \in BOOLEAN : got' = getPage(path, readable)
    /\ op' = "getPage"
    /\ UNCHANGED <<namespaces, decorators, macros, sources, pc, err, before, bpos, nbuilds,
                   nuses, phase, cancelIn, calls, groupLog, born, done>>
    /\ UNCHANGED <<parseVars, lexVars>>

Resolve ==
    Use \/ Build \/ BuildExpand \/ BuildCancel \/ BuildInvoke \/ BuildReturn \/ GetPage

\* --- sources of the resolver's specification ---
\* pages over the whole document
MaxPages == 2
\* decorators declared over the whole document
MaxDecs == 2

NS_a == <<"(", "a", ")">>
PG_p == <<"[", "p", "]">>
STR_s == <<"\"", "s", ".", "h", "t", "m", "l", "\"">>

DecNames == {N_auto, N_min, N_constructor}

\* a declaration  % [-] [!] name; `%!constructor` is left out: what becomes of
\* the spread of Object's return value depends on the compile target
DecSpecs ==
    {d \in [name : DecNames, not : BOOLEAN, mac : BOOLEAN] :
        d.name = N_constructor => ~d.mac}

DecToks(d) ==
    <<Token(PERCENT)>> \o (IF d.not THEN <<Token(DASH)>> ELSE <<>>)
        \o (IF d.mac THEN <<Token(BANG)>> ELSE <<>>) \o <<Token(d.name)>>

RECURSIVE SpecsToks(_)
SpecsToks(specs) ==
    IF specs = <<>> THEN <<>> ELSE DecToks(Head(specs)) \o SpecsToks(Tail(specs))

\* the page  %.. %.. [p] { @ "s" }
PageToks(specs) ==
    SpecsToks(specs) \o <<Token(PG_p), Token(LBRACE), Token(AT), Token(STR_s), Token(RBRACE)>>

RECURSIVE PagesToks(_)
PagesToks(pgs) ==
    IF pgs = <<>> THEN <<>> ELSE PageToks(Head(pgs)) \o PagesToks(Tail(pgs))

NsToks(pgs) == <<Token(NS_a), Token(LBRACE)>> \o PagesToks(pgs) \o <<Token(RBRACE)>>

\* a shape is the pages of a source, each the declarations in front of it,
\* and the number of pages that the first of its namespaces holds
First(shape) == SubSeq(shape.pages, 1, shape.split)
Second(shape) == SubSeq(shape.pages, shape.split + 1, Len(shape.pages))
TwoNs(shape) == shape.split < Len(shape.pages)

SourceOf(shape) ==
    NsToks(First(shape)) \o (IF TwoNs(shape) THEN NsToks(Second(shape)) ELSE <<>>)
        \o <<EOF>>

\* what add builds from these tokens: loc is the token of the `%` or header
RECURSIVE DecsAt(_, _)
DecsAt(specs, at) ==
    IF specs = <<>> THEN <<>>
    ELSE << [name |-> Head(specs).name, loc |-> [src |-> 1, tok |-> at], args |-> <<>>,
             props |-> DecFlags(Head(specs).not, Head(specs).mac, FALSE)] >>
         \o DecsAt(Tail(specs), at + Len(DecToks(Head(specs))))

RECURSIVE PagesAt(_, _)
PagesAt(pgs, at) ==
    IF pgs = <<>> THEN <<>>
    ELSE << [name |-> Slice1(PG_p), loc |-> [src |-> 1, tok |-> at + Len(SpecsToks(Head(pgs)))],
             path |-> Slice1(STR_s), decorators |-> DecsAt(Head(pgs), at),
             props |-> EmptyMap] >>
         \o PagesAt(Tail(pgs), at + Len(PageToks(Head(pgs))))

NsAt(pgs, at) ==
    [name |-> Slice1(NS_a), loc |-> [src |-> 1, tok |-> at], pages |-> PagesAt(pgs, at + 2),
     props |-> EmptyMap]

DocOf(shape) ==
    <<NsAt(First(shape), 0)>>
        \o (IF TwoNs(shape) THEN <<NsAt(Second(shape), Len(NsToks(First(shape))))>> ELSE <<>>)

BoundedSeq(S, n) == UNION {[1..m -> S] : m \in 0..n}

\* the sequences of np pages that declare at most nd decorators in all
RECURSIVE PagesOf(_, _)
PagesOf(np, nd) ==
    IF np = 0 THEN {<<>>}
    ELSE UNION { {<<first>> \o rest : rest \in PagesOf(np - 1, nd - Len(first))} :
                 first \in BoundedSeq(DecSpecs, nd) }

Shapes ==
    UNION { {[pages |-> pgs, split |-> sp] : pgs \in PagesOf(np, MaxDecs), sp \in 0..np} :
            np \in 1..MaxPages }

\* ------------------------------------------------------------------------
\* Specifications
\* ------------------------------------------------------------------------
Next == Parse

\* the parser, over every token array within the bounds
Spec == Init /\ [][Next]_vars

\* a Pages instance after add has returned from one of the sources above
InitBuild ==
    /\ \E shape \in Shapes :
          /\ sources = <<SourceOf(shape)>>
          /\ namespaces = DocOf(shape)
    /\ decorators = <<>>
    /\ macros = <<>>
    /\ pc = "idle"
    /\ err = NoError
    /\ i = Len(sources[1]) - 1
    /\ state = Top
    /\ namespace = 0
    /\ page = 0
    /\ decs = <<>>
    /\ groupDecs = <<>>
    /\ globDecs = <<>>
    /\ sub = "top"
    /\ paramOf = "none"
    /\ before = <<>>
    /\ bpos = 0
    /\ nbuilds = 0
    /\ nuses = 0
    /\ phase = "expand"
    /\ cancelIn = <<>>
    /\ calls = <<>>
    /\ groupLog = {}
    /\ op = "add"
    /\ got = NoResult
    /\ born = <<0>>
    /\ done = {}
    /\ body = <<>>
    /\ toks = <<>>
    /\ diag = NoDiag

NextBuild == Resolve

\* calls of add in a sequence of add, use and build calls
MaxDocs == 2

\* the sources of that sequence: one namespace with one page that declares at
\* most one decorator
DocShapes == {[pages |-> <<specs>>, split |-> 1] : specs \in BoundedSeq(DecSpecs, 1)}

InSource(loc, n) == [loc EXCEPT !.src = n]

\* what add builds from the n-th source given to it
DocAs(shape, n) ==
    LET doc == DocOf(shape)
        DecAs(d) == [d EXCEPT !.loc = InSource(@, n)]
        PageAs(pg) == [pg EXCEPT !.loc = InSource(@, n),
                                 !.decorators = [k \in 1..Len(@) |-> DecAs(@[k])]]
        NsAs(ns) == [ns EXCEPT !.loc = InSource(@, n),
                               !.pages = [k \in 1..Len(@) |-> PageAs(@[k])]]
    IN  [k \in 1..Len(doc) |-> NsAs(doc[k])]

\* add(source) from its call to its return, for one of these sources
AddDoc ==
    /\ pc = "idle"
    /\ Len(sources) < MaxDocs
    /\ \E shape \in DocShapes :
          /\ sources' = Append(sources, SourceOf(shape))
          /\ namespaces' = namespaces \o DocAs(shape, Len(sources) + 1)
          /\ i' = Len(SourceOf(shape)) - 1
    /\ before' = namespaces
    /\ born' = Append(born, nbuilds)
    /\ op' = "add"
    /\ got' = NoResult
    /\ err' = NoError
    /\ state' = Top
    /\ namespace' = 0
    /\ page' = 0
    /\ decs' = <<>>
    /\ groupDecs' = <<>>
    /\ globDecs' = <<>>
    /\ sub' = "top"
    /\ paramOf' = "none"
    /\ UNCHANGED <<decorators, macros, pc, bpos, nbuilds, nuses, phase, cancelIn, calls,
                   groupLog, done, lexVars>>

NextSeq == Resolve \/ AddDoc

\* add, use and build in any order, from a new Pages instance
SpecSeq == Init /\ [][NextSeq]_vars

\* use and build, over the documents of these sources
SpecBuild == InitBuild /\ [][NextBuild]_vars

\* ------------------------------------------------------------------------
\* Pages.build: the output phase, entered when params.outputPath is given
\* ------------------------------------------------------------------------
K_root == <<"r", "o", "o", "t">>
K_source == <<"s", "o", "u", "r", "c", "e">>

\* str.replace(/(^\/)/g,''): one leading slash goes
StripLead(str) == IF str /= <<>> /\ Head(str) = SLASH THEN Tail(str) ELSE str

\* namespace.props.root || '/'
RootOf(ns) == IF Truthy(Get(ns.props, K_root)) THEN Get(ns.props, K_root) ELSE <<SLASH>>

\* the public name: the stripped root, a slash, the stripped name, and one
\* leading slash taken off the whole
PublicName(root, name) == StripLead(Strip(root) \o <<SLASH>> \o Strip(name))

\* path.normalize of a path without . and .. segments: runs of slashes
\* become one slash
RECURSIVE pathNormalize(_)
pathNormalize(str) ==
    IF Len(str) < 2 THEN str
    ELSE IF str[1] = SLASH /\ str[2] = SLASH THEN pathNormalize(Tail(str))
    ELSE <<str[1]>> \o pathNormalize(Tail(str))

\* path.join(a, b)
pathJoin(a, b) ==
    IF a = <<>> THEN pathNormalize(b)
    ELSE IF b = <<>> THEN pathNormalize(a)
    ELSE pathNormalize(a \o <<SLASH>> \o b)

\* path.resolve of an absolute path: normalized, without a trailing slash
pathResolve(str) ==
    LET n == pathNormalize(str)
    IN  IF Len(n) > 1 /\ n[Len(n)] = SLASH THEN SubSeq(n, 1, Len(n) - 1) ELSE n

\* the output directory of the builds of this model, an absolute path
OutDir == <<"/", "o">>

\* the BuildParams of this model: the source directory is the file system's
\* root or is not given
OutParams ==
    {[outputPath |-> OutDir, sourcePaths |-> EmptyMap, defaultSource |-> d] :
        d \in {Undefined, <<SLASH>>}}

\* namespace.props.source || (params.sourcePaths||{})[namespace.name] ||
\* params.defaultSource
proot(ns, params) ==
    IF Truthy(Get(ns.props, K_source)) THEN Get(ns.props, K_source)
    ELSE IF Truthy(Get(params.sourcePaths, ns.name)) THEN Get(params.sourcePaths, ns.name)
    ELSE params.defaultSource

\* what the file system answers during one output phase: every check passes,
\* or the output path is a file, or the directory of the at-th namespace is a
\* file, or the source of the at-th page is not found, or its copy cannot be
\* written
Envs(nss) ==
    {[kind |-> "ok", at |-> 0], [kind |-> "outfile", at |-> 0]}
        \cup {[kind |-> "destfile", at |-> n] : n \in 1..Len(nss)}
        \cup {[kind |-> k, at |-> n] :
                k \in {"notfound", "write"}, n \in 1..Len(PagesFrom(nss, 1))}

\* the body of the loop over the pages, for the page at position pos
OutPage(ns, pg, params, env, pos) ==
    IF ~Truthy(pg.path)
    THEN [page |-> pg, err |-> buildError(pg.loc, "Missing path of the page")]
    ELSE IF ~Truthy(proot(ns, params))
    THEN [page |-> pg, err |-> buildError(ns.loc, "Missing source directory")]
    ELSE IF env.kind = "notfound" /\ env.at = pos
    THEN [page |-> pg, err |-> buildError(pg.loc, "File could not be found")]
    ELSE IF env.kind = "write" /\ env.at = pos
    THEN [page |-> pg, err |-> [kind |-> "Error", loc |-> NoLoc, msg |-> "ENOENT"]]
    ELSE [page |-> [pg EXCEPT
                       !.name = PublicName(RootOf(ns), pg.name),
                       !.path = pathResolve(pathJoin(pathJoin(params.outputPath, ns.name),
                                                     pg.path))],
          err |-> NoError]

\* the loop over namespace.pages from the p-th page on; pos0 pages precede
\* the namespace
RECURSIVE OutPages(_, _, _, _, _)
OutPages(ns, p, params, env, pos0) ==
    IF p > Len(ns.pages) THEN [ns |-> ns, err |-> NoError]
    ELSE LET r == OutPage(ns, ns.pages[p], params, env, pos0 + p)
         IN  IF r.err /= NoError THEN [ns |-> ns, err |-> r.err]
             ELSE OutPages([ns EXCEPT !.pages[p] = r.page], p + 1, params, env, pos0)

\* the loop over this.namespaces from the n-th namespace on
RECURSIVE OutNamespaces(_, _, _, _, _)
OutNamespaces(nss, n, params, env, pos0) ==
    IF n > Len(nss) THEN [nss |-> nss, err |-> NoError]
    ELSE IF env.kind = "destfile" /\ env.at = n
    THEN [nss |-> nss, err |-> [kind |-> "EvalError", loc |-> NoLoc,
                                msg |-> "Output path for the namespace is a file"]]
    ELSE LET r == OutPages(nss[n], 1, params, env, pos0)
         IN  IF r.err /= NoError THEN [nss |-> [nss EXCEPT ![n] = r.ns], err |-> r.err]
             ELSE OutNamespaces([nss EXCEPT ![n] = r.ns], n + 1, params, env,
                                pos0 + Len(nss[n].pages))

\* if (params.outputPath) { ... }
Output(nss, params, env) ==
    IF ~Truthy(params.outputPath) THEN [nss |-> nss, err |-> NoError]
    ELSE IF env.kind = "outfile"
    THEN [nss |-> nss, err |-> [kind |-> "EvalError", loc |-> NoLoc,
                                msg |-> "Output path is a file"]]
    ELSE OutNamespaces(nss, 1, params, env, 0)

\* every page is resolved; params.outputPath is given: the output phase runs
\* and build returns or throws
BuildOutput ==
    /\ pc = "build" /\ phase = "expand"
    /\ bpos = Len(PageOrder)
    /\ \E params \in OutParams, env \in Envs(namespaces) :
          LET r == Output(namespaces, params, env)
          IN  /\ namespaces' = r.nss
              /\ err' = r.err
              /\ done' = IF r.err = NoError THEN done \cup {nbuilds} ELSE done
    /\ pc' = "idle"
    /\ UNCHANGED <<before, bpos, nbuilds, phase, cancelIn, calls, op>>
    /\ UNCHANGED buildFrame
    /\ UNCHANGED <<parseVars, lexVars>>

\* --- sources of the output phase's specification ---
\* pages of the document
MaxOutPages == 2

OutRoots == {Undefined, <<"/">>, <<"x">>, <<"/", "x", "/">>}

OutNames == {<<"p">>, <<"/">>, <<"/", "p", "/">>}

\* a shape is the root of the namespace, when it gives one, and the names of
\* its pages
OutShapes ==
    {[root |-> r, names |-> ns] :
        r \in OutRoots, ns \in UNION {[1..m -> OutNames] : m \in 1..MaxOutPages}}

\* root = "..."
RootToks(r) ==
    IF r = Undefined THEN <<>>
    ELSE <<Token(K_root), Token(EQUALS), Token(<<"\"">> \o r \o <<"\"">>)>>

\* the page  [name] { @ "s.html" }
OutPageToks(name) ==
    <<Token(<<"[">> \o name \o <<"]">>), Token(LBRACE), Token(AT), Token(STR_s),
      Token(RBRACE)>>

RECURSIVE OutPagesToks(_)
OutPagesToks(names) ==
    IF names = <<>> THEN <<>>
    ELSE OutPageToks(Head(names)) \o OutPagesToks(Tail(names))

OutSource(shape) ==
    <<Token(NS_a), Token(LBRACE)>> \o RootToks(shape.root) \o OutPagesToks(shape.names)
        \o <<Token(RBRACE), EOF>>

\* what add builds from these tokens
OutDoc(shape) ==
    << [name |-> Slice1(NS_a), loc |-> [src |-> 1, tok |-> 0],
        pages |-> [k \in 1..Len(shape.names) |->
                     [name |-> shape.names[k],
                      loc |-> [src |-> 1, tok |-> 2 + Len(RootToks(shape.root)) + 5 * (k - 1)],
                      path |-> Slice1(STR_s), decorators |-> <<>>, props |-> EmptyMap]],
        props |-> IF shape.root = Undefined THEN EmptyMap
                  ELSE Put(EmptyMap, K_root, shape.root)] >>

\* a Pages instance after add has returned from one of these sources
InitOut ==
    /\ \E shape \in OutShapes :
          /\ sources = <<OutSource(shape)>>
          /\ namespaces = OutDoc(shape)
    /\ decorators = <<>>
    /\ macros = <<>>
    /\ pc = "idle"
    /\ err = NoError
    /\ i = Len(sources[1]) - 1
    /\ state = Top
    /\ namespace = 0
    /\ page = 0
    /\ decs = <<>>
    /\ groupDecs = <<>>
    /\ globDecs = <<>>
    /\ sub = "top"
    /\ paramOf = "none"
    /\ before = <<>>
    /\ bpos = 0
    /\ nbuilds = 0
    /\ nuses = 0
    /\ phase = "expand"
    /\ cancelIn = <<>>
    /\ calls = <<>>
    /\ groupLog = {}
    /\ op = "add"
    /\ got = NoResult
    /\ born = <<0>>
    /\ done = {}
    /\ body = <<>>
    /\ toks = <<>>
    /\ diag = NoDiag

NextOut == Build \/ BuildExpand \/ BuildCancel \/ BuildInvoke \/ BuildOutput

\* builds that give an output path, over the documents of these sources
SpecOut == InitOut /\ [][NextOut]_vars

\* ------------------------------------------------------------------------
\* tokenize, and the errors built from a Loc
\* ------------------------------------------------------------------------
\* characters of a source text
MaxBody == 4

SP == " "
NL == "\n"
QUOTE == "\""

Chars == {SP, NL, "a", "{", QUOTE, "(", ")"}

\* /[!=\-!@%{}<>]/
IsOperator(c) == c \in {"!", "=", "-", "@", "%", "{", "}", "<", ">"}

\* /\s/, for the characters above
IsSpace(c) == c \in {SP, NL}

Max(a, b) == IF a >= b THEN a ELSE b

\* new Token(col,row,val,source): loc is new Loc(src,col,row,val.length);
\* from is the index in the text of the character the token started with
TokenAt(col, row, val, from) ==
    [val |-> val, eof |-> FALSE, loc |-> [col |-> col, row |-> row, len |-> Len(val)],
     from |-> from]

\* new EOF(col,row,source)
EOFAt(col, row, from) ==
    [val |-> BLANK, eof |-> TRUE, loc |-> [col |-> col, row |-> row, len |-> Len(BLANK)],
     from |-> from]

\* pushtk(tk), in the scanner state st = [tokens, t, col, row, from]
pushtk(st, tk, from) ==
    [st EXCEPT !.tokens = Append(@, TokenAt(st.col - Max(0, Len(tk) - 1), st.row, tk, from))]

\* mutant: the pending text is pushed also when it is empty
pushtoken_always(st, tt) == [pushtk(st, st.t \o tt, st.from) EXCEPT !.t = <<>>]

\* pushtoken(tt)
pushtoken(st, tt) ==
    IF st.t /= <<>> THEN [pushtk(st, st.t \o tt, st.from) EXCEPT !.t = <<>>]
    ELSE [st EXCEPT !.t = <<>>]

\* t += chr
Grow(st, chr, k) ==
    [st EXCEPT !.t = Append(@, chr), !.from = IF st.t = <<>> THEN k ELSE @]

\* the character that ends a token which began with t[0], "" when none does
Closer(t) ==
    IF t = <<>> THEN ""
    ELSE IF t[1] = QUOTE THEN QUOTE
    ELSE IF t[1] = "[" THEN "]"
    ELSE IF t[1] = "(" THEN ")"
    ELSE ""

\* one turn of the for loop of tokenize, on the k-th character of the text
ScanChar(text, st, k) ==
    LET chr == text[k]
        s1 == IF Closer(st.t) /= ""
              THEN (IF chr = Closer(st.t) THEN pushtoken(st, <<chr>>) ELSE Grow(st, chr, k))
              ELSE IF IsOperator(chr)
              THEN pushtk(pushtoken(st, <<>>), <<chr>>, k)
              ELSE IF IsSpace(chr)
              THEN [pushtoken([st EXCEPT !.col = @ - 1], <<>>) EXCEPT !.col = @ + 1]
              ELSE Grow(st, chr, k)
    IN  IF chr = NL THEN [s1 EXCEPT !.col = 0, !.row = @ + 1]
        ELSE [s1 EXCEPT !.col = @ + 1]

RECURSIVE ScanFrom(_, _, _)
ScanFrom(text, st, k) ==
    IF k > Len(text) THEN st ELSE ScanFrom(text, ScanChar(text, st, k), k + 1)

\* tokenize(source)
tokenize(text) ==
    LET st == ScanFrom(text, [tokens |-> <<>>, t |-> <<>>, col |-> 0, row |-> 0, from |-> 0], 1)
        end == pushtoken(st, <<>>)
    IN  Append(end.tokens, EOFAt(end.col, end.row, Len(text) + 1))

\* loc.src.body.split(/\n/g)[loc.row]
RECURSIVE LineOf(_, _)
LineOf(text, row) ==
    LET cut == IF \E k \in 1..Len(text) : text[k] = NL
               THEN CHOOSE k \in 1..Len(text) :
                        text[k] = NL /\ \A m \in 1..(k - 1) : text[m] /= NL
               ELSE Len(text) + 1
    IN  IF row = 0 THEN SubSeq(text, 1, cut - 1)
        ELSE LineOf(SubSeq(text, cut + 1, Len(text)), row - 1)

\* the number of characters that .replace(/^\s+/g,'') takes off
RECURSIVE Leading(_)
Leading(line) ==
    IF line = <<>> \/ ~IsSpace(Head(line)) THEN 0 ELSE 1 + Leading(Tail(line))

\* the number of characters that .replace(/\s+$/g,'') takes off what is left
RECURSIVE Trailing(_)
Trailing(line) ==
    IF line = <<>> \/ ~IsSpace(line[Len(line)]) THEN 0
    ELSE 1 + Trailing(SubSeq(line, 1, Len(line) - 1))

\* trueline.replace(/^\s+/g,'').replace(/\s+$/g,'')
Trimmed(trueline) ==
    LET a == SubSeq(trueline, Leading(trueline) + 1, Len(trueline))
    IN  SubSeq(a, 1, Len(a) - Trailing(a))

\* const col = loc.col - trueline.length + line.length
CaretCol(loc, trueline) == loc.col - Len(trueline) + Len(Trimmed(trueline))

\* parseError (SyntaxError) and buildError (EvalError): the error they
\* return, or the RangeError that ' '.repeat(col) throws for a negative col
ErrorAt(ctor, text, loc) ==
    LET trueline == LineOf(text, loc.row)
        col == CaretCol(loc, trueline)
    IN  IF col < 0
        THEN [kind |-> "RangeError", loc |-> loc, line |-> Trimmed(trueline), col |-> col]
        ELSE [kind |-> ctor, loc |-> loc, line |-> Trimmed(trueline), col |-> col]

\* the first turn of add's loop, in state Top, on tokens[0]
AddFirst(text, tks) ==
    IF isNamespace(tks[1])
    THEN (IF Slice1(tks[1].val) = <<>> THEN ErrorAt("SyntaxError", text, tks[1].loc)
          ELSE IF tks[2].val /= LBRACE THEN ErrorAt("SyntaxError", text, tks[2].loc)
          ELSE [kind |-> "namespace"])
    ELSE IF tks[1].eof THEN [kind |-> "return"]
    ELSE ErrorAt("SyntaxError", text, tks[1].loc)

lexFrame == <<namespaces, decorators, macros, sources, pc, err, parseVars, before, bpos,
              nbuilds, nuses, phase, cancelIn, calls, groupLog, op, got, born, done>>

\* tokenize(source) is called
Tokenize ==
    /\ toks = <<>>
    /\ toks' = tokenize(body)
    /\ UNCHANGED <<body, diag>>
    /\ UNCHANGED lexFrame

\* add(source) runs the first turn of its loop on these tokens
AddTop ==
    /\ toks /= <<>>
    /\ diag' = ("by" :> "add") @@ AddFirst(body, toks)
    /\ UNCHANGED <<body, toks>>
    /\ UNCHANGED lexFrame

\* parseError or buildError is called with the loc of one of the tokens
Report ==
    /\ toks /= <<>>
    /\ \E k \in 1..Len(toks), ctor \in {"SyntaxError", "EvalError"} :
          diag' = ("by" :> ctor) @@ ErrorAt(ctor, body, toks[k].loc)
    /\ UNCHANGED <<body, toks>>
    /\ UNCHANGED lexFrame

NextTok == Tokenize \/ AddTop \/ Report

\* every text within the bound, as the body of a Source of a new Pages
InitTok ==
    /\ body \in UNION {[1..n -> Chars] : n \in 0..MaxBody}
    /\ toks = <<>>
    /\ diag = NoDiag
    /\ namespaces = <<>>
    /\ decorators = <<>>
    /\ macros = <<>>
    /\ sources = <<>>
    /\ pc = "idle"
    /\ err = NoError
    /\ i = 0
    /\ state = Top
    /\ namespace = 0
    /\ page = 0
    /\ decs = <<>>
    /\ groupDecs = <<>>
    /\ globDecs = <<>>
    /\ sub = "top"
    /\ paramOf = "none"
    /\ before = <<>>
    /\ bpos = 0
    /\ nbuilds = 0
    /\ nuses = 0
    /\ phase = "expand"
    /\ cancelIn = <<>>
    /\ calls = <<>>
    /\ groupLog = {}
    /\ op = "new"
    /\ got = NoResult
    /\ born = <<>>
    /\ done = {}

\* tokenize and the errors, over every text within the bound
SpecTok == InitTok /\ [][NextTok]_vars

\* ------------------------------------------------------------------------
\* Properties of the parser (Spec)
\* ------------------------------------------------------------------------
PageIdx ==
    UNION { {<<n, p>> : p \in 1..Len(namespaces[n].pages)} : n \in 1..Len(namespaces) }

PageAt(ix) == namespaces[ix[1]].pages[ix[2]]

HasDec(pg, loc) == \E k \in 1..Len(pg.decorators) : pg.decorators[k].loc = loc

isGlb(dec) == Truthy(Get(dec.props, K_glb))

Range(seq) == {seq[k] : k \in 1..Len(seq)}

\* the namespace whose body the token at loc lies in or follows: the last
\* header of that source before it (0 when there is none)
NsOfLoc(loc) ==
    LET cand == {n \in 1..Len(namespaces) :
                    namespaces[n].loc.src = loc.src /\ namespaces[n].loc.tok < loc.tok}
    IN  IF cand = {} THEN 0
        ELSE CHOOSE n \in cand : \A m \in cand : namespaces[m].loc.tok <= namespaces[n].loc.tok

\* `{` minus `}` among the tokens a..b of a source (indices as in the code)
RECURSIVE Bal(_, _, _)
Bal(src, a, b) ==
    IF b < a THEN 0
    ELSE Bal(src, a, b - 1)
         + (IF sources[src][b + 1].val = LBRACE THEN 1
            ELSE IF sources[src][b + 1].val = RBRACE THEN -1 ELSE 0)

\* the `{` at token k is matched by a `}` before token upto
ClosedBefore(src, k, upto) ==
    \E m \in (k + 1)..(upto - 1) :
        sources[src][m + 1].val = RBRACE /\ Bal(src, k, m) = 0

AddReturned == pc = "idle" /\ sources /= <<>> /\ err = NoError

\* C1 (as stated): after add, every page of a namespace has every global
\* decorator declared in that namespace's body, also the pages declared
\* before the decorator
C1_GlobalOnEveryPage ==
    AddReturned =>
        \A g \in Range(globDecs) : \A ix \in PageIdx :
            (ix[1] = NsOfLoc(g.loc)) => HasDec(PageAt(ix), g.loc)

\* C1 (amended): every page of the namespace that is declared after the
\* global decorator has it
C1_GlobalOnLaterPages ==
    \A g \in Range(globDecs) : \A ix \in PageIdx :
        (ix[1] = NsOfLoc(g.loc) /\ PageAt(ix).loc.tok > g.loc.tok)
            => HasDec(PageAt(ix), g.loc)

C1_Witness ==
    /\ AddReturned
    /\ \E g \in Range(globDecs) : \E ix \in PageIdx :
          /\ ix[1] = NsOfLoc(g.loc)
          /\ PageAt(ix).loc.tok > g.loc.tok
          /\ HasDec(PageAt(ix), g.loc)

\* C4: a page only carries global decorators that were declared in the body
\* of its own namespace
C4_GlobalStaysInNamespace ==
    \A ix \in PageIdx : \A d \in Range(PageAt(ix).decorators) :
        isGlb(d) => NsOfLoc(d.loc) = ix[1]

\* C5: a page declared after a group's `{` and before the `}` that matches
\* it has every decorator the group was opened with
C5_GroupCoversItsPages ==
    \A g \in groupLog : \A ix \in PageIdx :
        ( /\ PageAt(ix).loc.src = g.loc.src
          /\ PageAt(ix).loc.tok > g.loc.tok
          /\ ~ClosedBefore(g.loc.src, g.loc.tok, PageAt(ix).loc.tok) )
        => \A d \in Range(g.decs) : HasDec(PageAt(ix), d.loc)

Grouped(d) == \E g \in groupLog : \E e \in Range(g.decs) : e.loc = d.loc

\* C6: a local decorator that no `{` made a group's is only on the first
\* page declared after it
C6_LocalOnNextPageOnly ==
    \A ix \in PageIdx : \A d \in Range(PageAt(ix).decorators) :
        (~isGlb(d) /\ ~Grouped(d)) =>
            /\ d.loc.src = PageAt(ix).loc.src
            /\ d.loc.tok < PageAt(ix).loc.tok
            /\ ~\E iy \in PageIdx :
                  /\ PageAt(iy).loc.src = d.loc.src
                  /\ d.loc.tok < PageAt(iy).loc.tok
                  /\ PageAt(iy).loc.tok < PageAt(ix).loc.tok

C6_Witness ==
    \E ix \in PageIdx, iy \in PageIdx : \E d \in Range(PageAt(ix).decorators) :
        /\ ~isGlb(d) /\ ~Grouped(d)
        /\ PageAt(iy).loc.src = PageAt(ix).loc.src
        /\ PageAt(iy).loc.tok > PageAt(ix).loc.tok
        /\ ~HasDec(PageAt(iy), d.loc)

\* C7: add returns successfully only from a source whose `{` all have their `}`
C7_ReturnsOnlyWhenClosed ==
    AddReturned => Bal(Len(sources), 0, Len(tokens) - 1) = 0

\* C10: when add throws a syntax error, this.namespaces is what it was
\* before the call
C10_NoPartialAdd ==
    (pc = "idle" /\ err.kind = "SyntaxError") => namespaces = before

\* the <<namespace, page>> indices of a document
PagesIn(nss) == UNION { {<<n, p>> : p \in 1..Len(nss[n].pages)} : n \in 1..Len(nss) }

\* C19: the step of add that creates a page gives it the concatenation
\* global ++ group ++ local of the buffers as they are at that moment,
\* empties the local buffer and leaves the global and group buffers alone
C19_PageCreation ==
    [][ (pc = "add" /\ PagesIn(namespaces') /= PagesIn(namespaces)) =>
            LET ix == CHOOSE x \in PagesIn(namespaces') \ PagesIn(namespaces) : TRUE
            IN  /\ namespaces'[ix[1]].pages[ix[2]].decorators = globDecs \o groupDecs \o decs
                /\ decs' = <<>>
                /\ globDecs' = globDecs
                /\ groupDecs' = groupDecs ]_vars

C19_Witness ==
    /\ pc = "add" /\ state = Page /\ page /= 0
    /\ decs = <<>> /\ globDecs /= <<>>
    /\ LET d == namespaces[namespace].pages[page].decorators
       IN  /\ Len(d) >= 2
           /\ SubSeq(d, 1, Len(globDecs)) = globDecs
           /\ ~isGlb(d[Len(d)]) /\ ~Grouped(d[Len(d)])

\* ------------------------------------------------------------------------
\* Properties of the resolver (SpecBuild)
\* ------------------------------------------------------------------------
BuildAborted == pc = "idle" /\ nbuilds > 0 /\ err /= NoError

\* the page the resolver loop stands at
CurIdx == PageOrder[bpos + 1]

BeforePageAt(ix) == before[ix[1]].pages[ix[2]]

LexAfter(a, b) == b[1] > a[1] \/ (b[1] = a[1] /\ b[2] > a[2])

\* what a declaration puts on the page under the given name: itself, or the
\* stubs kind and min of the macro auto
Yields(d, name) ==
    IF isMac(d) THEN d.name = N_auto /\ name \in {N_kind, N_min} ELSE d.name = name

\* C2: a `%-name` declared after a decorator or macro that yields name on
\* the same page keeps name from being applied to that page: the list that
\* build invokes for a page declared with %!auto %-min has no min (README),
\* and no registered decorator is invoked for a declaration that a later
\* `%-name` of the page cancels
C2_CancelAfterPrevents ==
    /\ (pc = "build" /\ phase = "invoke") =>
          LET list == BeforePageAt(CurIdx).decorators
          IN  (\E m \in 1..Len(list) : \E k \in 1..(m - 1) :
                  /\ isMac(list[k]) /\ ~isNot(list[k]) /\ list[k].name = N_auto
                  /\ isNot(list[m]) /\ ~isMac(list[m]) /\ list[m].name = N_min)
              => ~\E d \in Range(CurPage.decorators) : d.name = N_min
    /\ nbuilds > 0 =>
          \A ix \in PageIdx :
              LET list == BeforePageAt(ix).decorators
              IN  \A m \in 1..Len(list) : \A k \in 1..(m - 1) :
                      ( /\ isNot(list[m]) /\ ~isMac(list[m])
                        /\ ~isNot(list[k])
                        /\ Yields(list[k], list[m].name)
                        /\ list[m].name \in DOMAIN decorators )
                      => ~\E c \in Range(calls) :
                            /\ c.page = BeforePageAt(ix).loc
                            /\ c.what = "decorator"
                            /\ c.name = list[m].name
                            /\ c.dec = list[k].loc

\* the entries of a list that no negated entry of the same name at a lower
\* or the same index removes, in their order
Kept(list) ==
    LET keep(k) == ~\E m \in 1..k : isNot(list[m]) /\ list[m].name = list[k].name
        RECURSIVE From(_)
        From(k) == IF k > Len(list) THEN <<>>
                   ELSE (IF keep(k) THEN <<list[k]>> ELSE <<>>) \o From(k + 1)
    IN  From(1)

C8_UnknownNameAborts ==
    /\ \A c \in Range(calls) :
          c.name \in DOMAIN (IF c.what = "macro" THEN macros ELSE decorators)
    /\ BuildAborted =>
          /\ err.kind = "EvalError"
          /\ \E d \in Range(PageAt(CurIdx).decorators) : d.loc = err.loc
          /\ err.loc /= PageAt(CurIdx).loc

\* C9: when build aborts on a page, every page after it in namespace-then-
\* page order is as it was when build was called and no implementation has
\* been invoked on it
C9_LaterPagesUntouched ==
    BuildAborted =>
        \A ix \in PageIdx :
            LexAfter(CurIdx, ix) =>
                /\ PageAt(ix) = BeforePageAt(ix)
                /\ \A c \in Range(calls) : c.page /= PageAt(ix).loc

C9_Witness ==
    /\ BuildAborted
    /\ \E ix \in PageIdx :
          /\ LexAfter(CurIdx, ix)
          /\ \E d \in Range(PageAt(ix).decorators) :
                ~isNot(d) /\ Lookup(decorators, d.name).found

\* the macro calls of the build in progress on the page the loop stands at
MacCalls ==
    SelectSeq(calls, LAMBDA c : c.what = "macro" /\ c.build = nbuilds
                                  /\ c.page = PageAt(CurIdx).loc)

\* the macros of that page when the build was called
MacsBefore == SelectSeq(BeforePageAt(CurIdx).decorators, isMac)

\* C11: expansion is one level deep: the macro implementations called for a
\* page are those of the entries flagged as macros when the build reached
\* it, each once and in order, and a stub that is itself flagged as a macro
\* under a registered name stays in the list unexpanded
C11_OneLevelExpansion ==
    /\ (pc = "build" /\ phase \in {"cancel", "invoke"}) =>
          /\ Len(MacCalls) = Len(MacsBefore)
          /\ \A k \in 1..Len(MacCalls) : MacCalls[k].dec = MacsBefore[k].loc
    /\ BuildAborted =>
          /\ Len(MacCalls) <= Len(MacsBefore)
          /\ \A k \in 1..Len(MacCalls) : MacCalls[k].dec = MacsBefore[k].loc

C11_Witness ==
    /\ pc = "build" /\ phase = "cancel"
    /\ Len(MacCalls) = 1
    /\ \E d \in Range(CurPage.decorators) :
          /\ isMac(d) /\ d.name \in DOMAIN macros
          /\ d.loc = MacCalls[1].dec

\* the last call was build and it returned
BuildSucceeded == pc = "idle" /\ op = "build" /\ err = NoError

\* C12: after build has returned successfully every page of every namespace
\* has an empty decorator list
C12_ListsEmptyAfterBuild ==
    BuildSucceeded => \A ix \in PageIdx : PageAt(ix).decorators = <<>>

C12_Witness ==
    /\ BuildSucceeded
    /\ PageIdx /= {}
    /\ \E ix \in PageIdx : \E c \in Range(calls) :
          c.page = PageAt(ix).loc /\ c.what = "decorator"
    /\ \A ix \in PageIdx : BeforePageAt(ix).decorators /= <<>>

\* the first build call made after the add of the source a page is in
FirstBuildOf(loc) == born[loc.src] + 1

\* C13: once the first build after a page's creation has returned, no later
\* build invokes an implementation on the page or changes its props: every
\* call on the page belongs to that first build
C13_ResolvedOnce ==
    /\ \A c \in Range(calls) :
          FirstBuildOf(c.page) \in done => c.build = FirstBuildOf(c.page)
    /\ pc = "build" =>
          \A ix \in PageIdx :
              (FirstBuildOf(PageAt(ix).loc) \in done) =>
                  /\ PageAt(ix).props = BeforePageAt(ix).props
                  /\ PageAt(ix).decorators = <<>>

C13_Witness ==
    /\ pc = "idle" /\ op = "build" /\ done = {1, 2}
    /\ \E ix \in PageIdx, iy \in PageIdx :
          /\ FirstBuildOf(PageAt(ix).loc) = 1
          /\ FirstBuildOf(PageAt(iy).loc) = 2
          /\ PageAt(ix).props /= EmptyMap
          /\ \E c \in Range(calls) : c.page = PageAt(ix).loc /\ c.build = 1
          /\ \E c \in Range(calls) : c.page = PageAt(iy).loc /\ c.build = 2

\* the pages that have the given name and a resource path
Named(name) == {ix \in PageIdx : PageAt(ix).name = name /\ Truthy(PageAt(ix).path)}

\* C14: when two or more pages have the name asked for and a resource path,
\* getPage answers with the first of them in namespace-then-page order
C14_FirstMatchWins ==
    (pc = "idle" /\ op = "getPage") =>
        \A ix \in PageIdx :
            LET name == PageAt(ix).name
            IN  ( /\ Cardinality(Named(name)) >= 2
                  /\ got.path \in {name, <<SLASH>> \o name \o <<SLASH>>} )
                => /\ got.kind \in {"page", "throw"}
                   /\ got.page \in Named(name)
                   /\ \A iy \in Named(name) : iy = got.page \/ LexAfter(got.page, iy)

C14_Witness ==
    /\ pc = "idle" /\ op = "getPage" /\ got.kind = "page"
    /\ got.path /= PageAt(got.page).name
    /\ \E iy \in Named(PageAt(got.page).name) :
          iy[1] = got.page[1] /\ iy[2] > got.page[2]

\* what stands for one entry of the list after expansion: the entry, or the
\* stubs of the macro, each flagged negated when the macro is
StandsFor(d) ==
    IF ~isMac(d) THEN <<d>>
    ELSE LET ret == ApplyMac(Lookup(macros, d.name).impl, CurPage, d)
         IN  [n \in 1..Len(ret) |->
                [ret[n] EXCEPT !.props = IF isNot(d) THEN (K_not :> JsTrue) @@ @ ELSE @]]

RECURSIVE Spliced(_)
Spliced(list) == IF list = <<>> THEN <<>> ELSE StandsFor(Head(list)) \o Spliced(Tail(list))

\* C20: after expansion the list is the list build found, with every macro
\* replaced where it stood by its stubs and every other entry where it was,
\* and the stubs of a negated macro are all flagged negated
C20_StubsReplaceMacro ==
    (pc = "build" /\ phase = "cancel") =>
        CurPage.decorators = Spliced(BeforePageAt(CurIdx).decorators)

C20_Witness ==
    /\ pc = "build" /\ phase = "cancel"
    /\ LET was == BeforePageAt(CurIdx).decorators
           now == CurPage.decorators
       IN  /\ Len(was) = 2 /\ Len(now) = 3
           /\ isMac(was[1]) /\ isNot(was[1]) /\ ~isMac(was[2])
           /\ isNot(now[1]) /\ isNot(now[2]) /\ now[3] = was[2]

\* the calls of the build in progress on a page, of one sort
CallsOn(loc, what) ==
    SelectSeq(calls, LAMBDA c : c.what = what /\ c.build = nbuilds /\ c.page = loc)

\* the position in the log of the n-th call of one sort on a page
RECURSIVE NthCall(_, _, _, _)
NthCall(loc, what, n, from) ==
    IF calls[from].what = what /\ calls[from].build = nbuilds /\ calls[from].page = loc
    THEN (IF n = 1 THEN from ELSE NthCall(loc, what, n - 1, from + 1))
    ELSE NthCall(loc, what, n, from + 1)

\* the page the resolver loop has just left
LastIdx == PageOrder[bpos]

\* C21: when the resolver loop leaves a page, the decorator implementations
\* invoked on it are those of the entries that remain after cancellation,
\* once each and in list order, every one after the last macro call of the
\* page; and none is invoked while the page is expanded and cancelled
C21_InvocationOrder ==
    /\ (op = "build" /\ err = NoError /\ phase = "expand" /\ bpos > 0) =>
          LET loc == PageAt(LastIdx).loc
              ran == CallsOn(loc, "decorator")
              exp == CallsOn(loc, "macro")
          IN  /\ Len(ran) = Len(Kept(cancelIn))
              /\ \A k \in 1..Len(ran) :
                    /\ ran[k].dec = Kept(cancelIn)[k].loc
                    /\ ran[k].name = Kept(cancelIn)[k].name
              /\ (ran /= <<>> /\ exp /= <<>>) =>
                    NthCall(loc, "macro", Len(exp), 1) < NthCall(loc, "decorator", 1, 1)
    /\ (pc = "build" /\ bpos < Len(PageOrder)) =>
          CallsOn(CurPage.loc, "decorator") = <<>>

C21_Witness ==
    /\ op = "build" /\ err = NoError /\ phase = "expand" /\ bpos > 0
    /\ Len(CallsOn(PageAt(LastIdx).loc, "decorator")) = 2
    /\ CallsOn(PageAt(LastIdx).loc, "decorator")[1].name
          /= CallsOn(PageAt(LastIdx).loc, "decorator")[2].name
    /\ CallsOn(PageAt(LastIdx).loc, "macro") /= <<>>

\* the Content-Type that goes with the extension of a resource path
KindOfPath(path) ==
    IF endsWith(path, EXT_js) THEN <<"application/javascript">>
    ELSE IF endsWith(path, EXT_css) THEN <<"text/css">>
    ELSE IF endsWith(path, EXT_html) THEN <<"text/html">>
    ELSE Undefined

\* C16: a page on which kind was invoked without an argument has the
\* Content-Type header that goes with the extension of its resource path
C16_KindFromPath ==
    \A ix \in PageIdx : \A c \in Range(calls) :
        ( /\ c.page = PageAt(ix).loc /\ c.impl = "kind"
          /\ Truthy(PageAt(ix).path)
          /\ Truthy(KindOfPath(PageAt(ix).path)) )
        => /\ K_headers \in DOMAIN PageAt(ix).props
           /\ Get(PageAt(ix).props[K_headers], ContentType) = KindOfPath(PageAt(ix).path)

\* ------------------------------------------------------------------------
\* Properties of tokenize and of the errors (SpecTok)
\* ------------------------------------------------------------------------
\* zero-based row and column of the k-th character of a text
RowOf(text, k) == Cardinality({m \in 1..(k - 1) : text[m] = NL})

ColOf(text, k) ==
    LET nls == {m \in 1..(k - 1) : text[m] = NL}
        last == IF nls = {} THEN 0 ELSE CHOOSE m \in nls : \A n \in nls : n <= m
    IN  k - 1 - last

OnlySpace(text) == \A k \in 1..Len(text) : IsSpace(text[k])

\* C15: for a source without a namespace header, add returns with nothing
\* added when the text is only whitespace, and otherwise throws a syntax
\* error located at the first token
C15_NoNamespaceHeader ==
    (diag.by = "add" /\ \A k \in 1..Len(toks) : ~isNamespace(toks[k])) =>
        IF OnlySpace(body) THEN diag.kind = "return"
        ELSE diag.kind = "SyntaxError" /\ diag.loc = toks[1].loc

\* C17: every token before the end marker carries the row and the column of
\* its first character in the text, and its number of characters as length
C17_TokenLocations ==
    \A k \in 1..Len(toks) :
        ~toks[k].eof =>
            /\ toks[k].loc.row = RowOf(body, toks[k].from)
            /\ toks[k].loc.col = ColOf(body, toks[k].from)
            /\ toks[k].loc.len = Len(toks[k].val)
            /\ toks[k].val = SubSeq(body, toks[k].from, toks[k].from + Len(toks[k].val) - 1)

\* C18: an error built for a Loc has a caret offset that is not negative and
\* is the Loc's column less the leading whitespace of its line
C18_CaretUnderToken ==
    diag.by \in {"SyntaxError", "EvalError"} =>
        /\ diag.kind = diag.by
        /\ diag.col >= 0
        /\ diag.col = diag.loc.col - Leading(LineOf(body, diag.loc.row))

\* C22: tokenize returns, for every text, a sequence whose last element is
\* the end-of-input token and its only one, and no other token is empty
C22_OneEndMarker ==
    toks /= <<>> =>
        /\ toks[Len(toks)].eof
        /\ \A k \in 1..(Len(toks) - 1) : ~toks[k].eof /\ toks[k].val /= <<>>

C22_Witness ==
    /\ Len(toks) >= 3
    /\ \E k \in 1..(Len(body) - 1) : IsSpace(body[k]) /\ IsSpace(body[k + 1])
    /\ ~IsSpace(body[Len(body)])

\* the markers a decorator was declared with: the tokens between its `%` and
\* its name
MarkersOf(d) ==
    LET tks == sources[d.loc.src]
        p1 == d.loc.tok + 2
        glb == tks[p1].val = PERCENT
        p2 == IF glb THEN p1 + 1 ELSE p1
        not == tks[p2].val = DASH
        p3 == IF not THEN p2 + 1 ELSE p2
        mac == tks[p3].val = BANG
    IN  [not |-> not, mac |-> mac, glb |-> glb]

\* every decorator add holds: pending, of a group, global, or on a page
DeclaredDecs ==
    Range(decs) \cup Range(groupDecs) \cup Range(globDecs)
        \cup UNION {Range(PageAt(ix).decorators) : ix \in PageIdx}

\* C23: a decorator is flagged negated, macro or global exactly when its
\* declaration carries the marker -, ! or %%, whatever its named parameters
C23_FlagsFromMarkers ==
    pc = "add" =>
        \A d \in DeclaredDecs :
            /\ isNot(d) = MarkersOf(d).not
            /\ isMac(d) = MarkersOf(d).mac
            /\ isGlb(d) = MarkersOf(d).glb
\* C24: the list the invocation loop runs over holds no negated entry, and
\* every implementation it calls is called with an entry of that list
C24_NoNegatedInvoked ==
    [][ (pc = "build" /\ phase = "invoke") =>
            /\ \A d \in Range(CurPage.decorators) : ~isNot(d)
            /\ \A k \in (Len(calls) + 1)..Len(calls') :
                  \E d \in Range(CurPage.decorators) :
                      ~isNot(d) /\ d.loc = calls'[k].dec /\ d.name = calls'[k].name
      ]_vars

C24_Witness ==
    /\ pc = "build" /\ phase = "expand" /\ bpos >= 1
    /\ \E c \in Range(calls) :
          c.what = "decorator" /\ c.build = nbuilds /\ c.page = PageAt(PageOrder[bpos]).loc
    /\ \E k \in 1..Len(cancelIn) : isNot(cancelIn[k])
\* C25: once the whole token array is there, the furthest token the next
\* step of the parser reads is at or before the end-of-input token
C25_LookaheadInBounds ==
    (pc = "add" /\ Complete) => Need <= Len(tokens) - 1

\* the parameter scan of a decorator is about to read the end-of-input token
C25_Witness ==
    /\ pc = "add" /\ Complete
    /\ sub = "params"
    /\ Need = Len(tokens) - 1 /\ Need > i + 1
\* C26: when build aborts on a page with an unknown decorator or macro, no
\* decorator implementation was invoked on that page by this build and the page's
\* decorator list is the one it had when build was called
C26_AbortLeavesPage ==
    BuildAborted =>
        /\ ~\E c \in Range(calls) :
              c.what = "decorator" /\ c.build = nbuilds /\ c.page = PageAt(CurIdx).loc
        /\ PageAt(CurIdx).decorators = BeforePageAt(CurIdx).decorators
\* C27: after a build with an output path has returned, no page's public name
\* has a leading or a trailing slash: the normalization of getPage leaves it
\* as it is
C27_NameIsNormalized ==
    (pc = "idle" /\ nbuilds \in done) =>
        \A ix \in PageIdx : Strip(PageAt(ix).name) = PageAt(ix).name

\* C28: a second build with an output path leaves every page's public name
\* as the first build left it
C28_RewriteIdempotent ==
    (pc = "idle" /\ done = {1, 2}) =>
        \A ix \in PageIdx : PageAt(ix).name = BeforePageAt(ix).name
\* C29: while add runs, state Namespace goes with a current namespace and
\* state Page with a current page, and no error is the <INVALID STATE> one
C29_StateHasItsObject ==
    /\ err.msg /= "<INVALID STATE>"
    /\ pc = "add" =>
          /\ state = Namespace => namespace /= 0
          /\ state = Page => page /= 0 /\ namespace /= 0

\* back in state Namespace after a page of a group and the group were closed
C29_Witness ==
    /\ pc = "add" /\ state = Namespace
    /\ namespace /= 0 /\ page = 0
    /\ namespaces[namespace].pages /= <<>>
    /\ groupLog /= {} /\ groupDecs = <<>>
====
